---- MODULE Spec2Model ----
(***************************************************************************)
(* Model of the OpenGenePool sequence editor's coordinate model: ranges,   *)
(* spans, the selection domain and the adjustment of annotation spans and  *)
(* of the selection when the sequence is inserted into, deleted from or    *)
(* replaced.  Coordinates are "fenced": 0-based, half-open [start, end).   *)
(***************************************************************************)
EXTENDS Integers, Sequences, FiniteSets, TLC

(***************************************************************************)
(* Bounds of the model.                                                    *)
(***************************************************************************)
InitialLength == 4      \* length of the sequence the editor is mounted with
MaxTextLen == 2         \* longest text typed into the insert/replace modal
MaxEdits == 1           \* edits (insert, replace, delete) per behaviour
MaxLength == 6          \* longest sequence an insert or replace may leave

VARIABLES
    sequence,       \* the editor's sequence text, a sequence of bases
    circular,       \* metadata.circular
    annotations,    \* the annotation list: one span (sequence of ranges) each
    selection,      \* selection.domain: NoSelection or a sequence of ranges
    last,           \* the operation performed last and the state it started in
    edits,          \* number of edits performed
    sent,           \* the backend calls made by the operation performed last
    backend,        \* the sequence text of a backend that applies every call
    search,         \* the search panel: its state, timers and notifications
    genbank         \* the feature locations of the GenBank text written last

vars ==
    <<sequence, circular, annotations, selection, last, edits, sent, backend, search,
      genbank>>

(***************************************************************************)
(* Coordinate primitives.                                                  *)
(***************************************************************************)
Orientation == {"Plus", "Minus", "None"}

Range(start, end, orientation, startIndefinite, endIndefinite) ==
    [start |-> start, end |-> end, orientation |-> orientation,
     startIndefinite |-> startIndefinite, endIndefinite |-> endIndefinite]

PlainRange(start, end) == Range(start, end, "Plus", FALSE, FALSE)

rangeLength(r) == r.end - r.start

\* selection.domain is null: no range is selected
NoSelection == <<>>

Bases == <<"A", "C", "G", "T">>

\* the first n bases of ACGTACGT...
BaseText(n) == [i \in 1..n |-> Bases[((i - 1) % 4) + 1]]

(***************************************************************************)
(* Sequence text edits.                                                    *)
(***************************************************************************)
\* String.prototype.slice for indices >= 0: out-of-range indices are clamped
slice(seq, from, to) ==
    LET hi == IF to > Len(seq) THEN Len(seq) ELSE to
    IN  IF from >= hi THEN <<>> ELSE SubSeq(seq, from + 1, hi)

insertText(seq, position, text) ==
    slice(seq, 0, position) \o text \o slice(seq, position, Len(seq))

deleteText(seq, start, end) ==
    slice(seq, 0, start) \o slice(seq, end, Len(seq))

(***************************************************************************)
(* Edit adjustment of one range.  The outcome of each case is what the     *)
(* editor's annotation tests observe; the case analysis follows the        *)
(* policy table of the edit-adjustment engine.                             *)
(***************************************************************************)

\* Pure insertion of `length` characters at `position`: a bound moves only
\* if it lies strictly after the insertion point.
adjustForInsertShiftingStart(range, position, length) ==
    [range EXCEPT
        !.start = IF range.start >= position THEN range.start + length ELSE range.start,
        !.end   = IF range.end > position THEN range.end + length ELSE range.end]

adjustForInsertShiftingEnd(range, position, length) ==
    [range EXCEPT
        !.start = IF range.start > position THEN range.start + length ELSE range.start,
        !.end   = IF range.end >= position THEN range.end + length ELSE range.end]

adjustForInsert(range, position, length) ==
    [range EXCEPT
        !.start = IF range.start > position THEN range.start + length ELSE range.start,
        !.end   = IF range.end > position THEN range.end + length ELSE range.end]

\* range entirely before the edit
keepBeforeDroppingFlags(range) ==
    PlainRange(range.start, range.end)

keepBefore(range) == range

\* range entirely after the edit
shiftAfterStartOnly(range, delta) ==
    [range EXCEPT !.start = range.start + delta]

shiftAfter(range, delta) ==
    [range EXCEPT !.start = range.start + delta, !.end = range.end + delta]

\* range entirely inside the removed region
collapseContainedAfterText(range, editStart, insertedLength) ==
    [range EXCEPT !.start = editStart + insertedLength,
                  !.end = editStart + insertedLength]

collapseContainedEndOnly(range, editStart, insertedLength) ==
    [range EXCEPT !.end = editStart]

collapseContained(range, editStart, insertedLength) ==
    [range EXCEPT !.start = editStart, !.end = editStart]

\* range starts before the removed region and ends inside it
truncateLeftOverlapAfterText(range, editStart, insertedLength) ==
    [range EXCEPT !.end = editStart + insertedLength]

truncateLeftOverlap(range, editStart, insertedLength) ==
    [range EXCEPT !.end = editStart]

\* range starts inside the removed region and ends after it
moveRightOverlapToEditStart(range, editStart, insertedLength, delta) ==
    [range EXCEPT !.start = editStart, !.end = range.end + delta]

moveRightOverlap(range, editStart, insertedLength, delta) ==
    [range EXCEPT !.start = editStart + insertedLength, !.end = range.end + delta]

\* the removed region lies strictly inside the range
resizeSpanningShiftingStart(range, delta) ==
    [range EXCEPT !.start = range.start + delta, !.end = range.end + delta]

resizeSpanning(range, delta) ==
    [range EXCEPT !.end = range.end + delta]

\* the range lies inside the removed region [editStart, editStart + removedLength)
isCollapsedBy(range, editStart, removedLength) ==
    /\ removedLength > 0
    /\ ~(range.end <= editStart)
    /\ ~(range.start >= editStart + removedLength)
    /\ range.start >= editStart
    /\ range.end <= editStart + removedLength

applyInsertDeleteToRange(range, editStart, removedLength, insertedLength) ==
    LET delta == insertedLength - removedLength
        editEnd == editStart + removedLength
    IN  IF removedLength = 0
        THEN adjustForInsert(range, editStart, insertedLength)
        ELSE IF range.end <= editStart
        THEN keepBefore(range)
        ELSE IF range.start >= editEnd
        THEN shiftAfter(range, delta)
        ELSE IF range.start >= editStart /\ range.end <= editEnd
        THEN collapseContained(range, editStart, insertedLength)
        ELSE IF range.start < editStart /\ range.end <= editEnd
        THEN truncateLeftOverlap(range, editStart, insertedLength)
        ELSE IF range.start >= editStart
        THEN moveRightOverlap(range, editStart, insertedLength, delta)
        ELSE resizeSpanning(range, delta)

(***************************************************************************)
(* Edit adjustment of a span: every range independently; a span all of     *)
(* whose ranges collapse becomes one zero-length point at the edit         *)
(* position.                                                               *)
(***************************************************************************)
applyEdit(span, editStart, removedLength, insertedLength) ==
    LET adjusted == [i \in 1..Len(span) |->
            applyInsertDeleteToRange(span[i], editStart, removedLength, insertedLength)]
    IN  IF \A i \in 1..Len(span) : isCollapsedBy(span[i], editStart, removedLength)
        THEN <<adjusted[1]>>
        ELSE adjusted

applyEditToAllDroppingCollapsed(spans, editStart, removedLength, insertedLength) ==
    LET isKept(span) == \E i \in 1..Len(span) : ~isCollapsedBy(span[i], editStart, removedLength)
        adjust(span) == applyEdit(span, editStart, removedLength, insertedLength)
        kept == SelectSeq(spans, isKept)
    IN  [a \in 1..Len(kept) |-> adjust(kept[a])]

applyEditToAll(spans, editStart, removedLength, insertedLength) ==
    [a \in 1..Len(spans) |-> applyEdit(spans[a], editStart, removedLength, insertedLength)]

(***************************************************************************)
(* Selection domain.                                                       *)
(***************************************************************************)
isCursor(domain) ==
    /\ domain # NoSelection
    /\ Len(domain) = 1
    /\ domain[1].start = domain[1].end

isSingleRange(domain) ==
    /\ domain # NoSelection
    /\ Len(domain) = 1
    /\ domain[1].start < domain[1].end

hasSelection(domain) == domain # NoSelection

hasSelectedBases(domain) ==
    /\ domain # NoSelection
    /\ \E i \in 1..Len(domain) : domain[i].start < domain[i].end

removeAt(seq, i) == SubSeq(seq, 1, i - 1) \o SubSeq(seq, i + 1, Len(seq))

sortAscending(ranges) == ranges

\* the ranges of a selection ordered from the highest start to the lowest

RECURSIVE sortDescending(_)
sortDescending(ranges) ==
    IF Len(ranges) <= 1
    THEN ranges
    ELSE LET i == CHOOSE k \in 1..Len(ranges) :
                    \A j \in 1..Len(ranges) : ranges[j].start <= ranges[k].start
         IN  <<ranges[i]>> \o sortDescending(removeAt(ranges, i))

reverse(seq) == [i \in 1..Len(seq) |-> seq[Len(seq) + 1 - i]]

isContiguousWithoutWrap(ranges, length, isCircular) ==
    LET sorted == reverse(sortDescending(ranges))
    IN  \A i \in 1..(Len(sorted) - 1) : sorted[i].end = sorted[i + 1].start

\* Contiguity of the deleted ranges, with wrap-around on a circular sequence
\* of length `length`: sorted by start, consecutive ranges touch, and across
\* the origin the last range ends at `length` while the first starts at 0.
isContiguous(ranges, length, isCircular) ==
    LET sorted == reverse(sortDescending(ranges))
        n == Len(sorted)
        gaps == {i \in 1..(n - 1) : sorted[i].end # sorted[i + 1].start}
        wraps == isCircular /\ sorted[n].end = length /\ sorted[1].start = 0
    IN  \/ gaps = {}
        \/ Cardinality(gaps) = 1 /\ wraps

highestStart(ranges) == sortDescending(ranges)[1].start

lowestStart(ranges) == reverse(sortDescending(ranges))[1].start

selectionAfterDeleteKeepingCursor(ranges, length, isCircular) ==
    <<PlainRange(lowestStart(ranges), lowestStart(ranges))>>

selectionAfterDelete(ranges, length, isCircular) ==
    IF isContiguous(ranges, length, isCircular)
    THEN <<PlainRange(lowestStart(ranges), lowestStart(ranges))>>
    ELSE NoSelection

\* after a replace the selection brackets the inserted text
selectionAfterReplaceKeepingEnd(domain, insertedLength) ==
    domain

selectionAfterReplace(domain, insertedLength) ==
    <<[domain[1] EXCEPT !.end = domain[1].start + insertedLength]>>

selectionAfterInsert(domain, insertedLength) ==
    [i \in 1..Len(domain) |->
        applyInsertDeleteToRange(domain[i], domain[1].start, 0, insertedLength)]

(***************************************************************************)
(* Deleting the selected ranges one by one, in the order given: each       *)
(* deletion is applied to the text and to every span before the next.      *)
(***************************************************************************)
RECURSIVE deleteRanges(_, _, _)
deleteRanges(seq, spans, ranges) ==
    IF ranges = <<>>
    THEN [sequence |-> seq, annotations |-> spans]
    ELSE LET r == Head(ranges)
         IN  deleteRanges(deleteText(seq, r.start, r.end),
                          applyEditToAll(spans, r.start, rangeLength(r), 0),
                          Tail(ranges))

deleteSelectionAsListed(seq, spans, domain) ==
    deleteRanges(seq, spans, domain)

deleteSelection(seq, spans, domain) ==
    deleteRanges(seq, spans, sortDescending(domain))

(***************************************************************************)
(* Inputs.                                                                 *)
(***************************************************************************)
\* orientation and indefinite-boundary markers an annotation is loaded with
Flavours ==
    { <<"Plus", FALSE, FALSE>>, <<"Minus", TRUE, FALSE>>, <<"None", FALSE, TRUE>> }

\* spans annotations are loaded with: one range of any flavour, which may
\* be a zero-length point, or two plus-strand ranges in ascending order
InitialSpans(length) ==
    LET single == { <<Range(a, b, f[1], f[2], f[3])>> :
                        <<a, b, f>> \in { t \in (0..length) \X (0..length) \X Flavours :
                                            t[1] <= t[2] } }
        joined == { <<PlainRange(q[1], q[2]), PlainRange(q[3], q[4])>> :
                        q \in { t \in (0..length) \X (0..length) \X (0..length) \X (0..length) :
                                   /\ t[1] < t[2]
                                   /\ t[2] <= t[3]
                                   /\ t[3] < t[4] } }
    IN  single \cup joined

\* selections select(text) can set on a sequence of the given length
Selections(length) ==
    LET cursors == { <<PlainRange(p, p)>> : p \in 0..length }
        single == { <<PlainRange(t[1], t[2])>> :
                        t \in { u \in (0..length) \X (0..length) : u[1] < u[2] } }
        double == { <<PlainRange(q[1], q[2]), PlainRange(q[3], q[4])>> :
                        q \in { t \in (0..length) \X (0..length) \X (0..length) \X (0..length) :
                                   /\ t[1] < t[2]
                                   /\ t[2] <= t[3]
                                   /\ t[3] < t[4] } }
    IN  cursors \cup single \cup double

\* texts submitted through the insert/replace modal
Texts == { BaseText(n) : n \in 1..MaxTextLen }

NoEdit ==
    [op |-> "none", ranges |-> <<>>, insertedLength |-> 0,
     annotations |-> <<>>, sequence |-> <<>>, length |-> 0, circular |-> FALSE]

Edit(op, ranges, insertedLength) ==
    [op |-> op, ranges |-> ranges, insertedLength |-> insertedLength,
     annotations |-> annotations, sequence |-> sequence, length |-> Len(sequence),
     circular |-> circular]

\* every range of the domain lies on the sequence
isWithin(domain, length) ==
    \A i \in 1..Len(domain) : domain[i].start >= 0 /\ domain[i].end <= length

\* backend.insert({ id, position, text })
insertCall(position, text) == [call |-> "insert", position |-> position, text |-> text]

deleteCallOneBased(range) ==
    [call |-> "delete", start |-> range.start + 1, end |-> range.end]

\* backend.delete({ id, start, end })
deleteCall(range) == [call |-> "delete", start |-> range.start, end |-> range.end]

deleteCallsLowestFirst(ranges) ==
    [i \in 1..Len(ranges) |-> deleteCall(ranges[Len(ranges) + 1 - i])]

\* one backend.delete per range, in the order the ranges are deleted
deleteCalls(ranges) == [i \in 1..Len(ranges) |-> deleteCall(ranges[i])]

\* the backend applies a call verbatim to the text it holds
applyCall(text, call) ==
    IF call.call = "insert"
    THEN insertText(text, call.position, call.text)
    ELSE deleteText(text, call.start, call.end)

\* the calls applied in the order they were made
RECURSIVE applyCalls(_, _)
applyCalls(text, calls) ==
    IF calls = <<>>
    THEN text
    ELSE applyCalls(applyCall(text, Head(calls)), Tail(calls))

(***************************************************************************)
(* The editor.                                                             *)
(***************************************************************************)
\* the search panel as mounted: hidden, not navigating, no match, no timer
\* set, no selection-change notification under way
NoSearch ==
    [visible |-> FALSE, isNavigating |-> FALSE, matches |-> <<>>,
     currentMatchIndex |-> 0, timers |-> 0, pending |-> "none",
     delivered |-> "none", wasVisible |-> FALSE]

Init ==
    /\ sequence = BaseText(InitialLength)
    /\ circular \in BOOLEAN
    /\ annotations \in { <<span>> : span \in InitialSpans(InitialLength) }
    /\ selection = NoSelection
    /\ last = NoEdit
    /\ edits = 0
    /\ sent = <<>>
    /\ backend = sequence
    /\ search = NoSearch
    /\ genbank = <<>>

\* the operation performed last changed the sequence
isEdited == last.op \in {"insert", "replace", "delete"}

\* selection.select(text).  select replaces the domain, so selecting over a
\* selection set since the last edit reaches no state that the later select
\* alone does not reach: such a pair is taken as the one step.
Select ==
    /\ edits < MaxEdits
    /\ selection = NoSelection \/ isEdited
    /\ \E domain \in Selections(Len(sequence)) : selection' = domain
    /\ last' = NoEdit
    /\ sent' = <<>>
    /\ UNCHANGED <<sequence, circular, annotations, edits, backend, search, genbank>>

\* Escape / clearSelection()
Clear ==
    /\ edits < MaxEdits
    /\ selection # NoSelection
    /\ selection' = NoSelection
    /\ last' = NoEdit
    /\ sent' = <<>>
    /\ UNCHANGED <<sequence, circular, annotations, edits, backend, search, genbank>>

\* the insert modal submitted (default annotation mode) with a cursor selected
Insert ==
    /\ edits < MaxEdits
    /\ isCursor(selection)
    /\ isWithin(selection, Len(sequence))
    /\ \E text \in { t \in Texts : Len(sequence) + Len(t) <= MaxLength } :
        LET position == selection[1].start
        IN  /\ sequence' = insertText(sequence, position, text)
            /\ annotations' = applyEditToAll(annotations, position, 0, Len(text))
            /\ selection' = selectionAfterInsert(selection, Len(text))
            /\ last' = Edit("insert", selection, Len(text))
            /\ sent' = <<insertCall(position, text)>>
            /\ backend' = applyCalls(backend, sent')
    /\ edits' = edits + 1
    /\ UNCHANGED <<circular, search, genbank>>

\* the insert modal submitted in replace mode, with one non-empty range selected
Replace ==
    /\ edits < MaxEdits
    /\ isSingleRange(selection)
    /\ isWithin(selection, Len(sequence))
    /\ \E text \in { t \in Texts :
                        Len(sequence) - rangeLength(selection[1]) + Len(t) <= MaxLength } :
        LET r == selection[1]
        IN  /\ sequence' = insertText(deleteText(sequence, r.start, r.end), r.start, text)
            /\ annotations' = applyEditToAll(annotations, r.start, rangeLength(r), Len(text))
            /\ selection' = selectionAfterReplace(selection, Len(text))
            /\ last' = Edit("replace", selection, Len(text))
            /\ sent' = <<deleteCall(r), insertCall(r.start, text)>>
            /\ backend' = applyCalls(backend, sent')
    /\ edits' = edits + 1
    /\ UNCHANGED <<circular, search, genbank>>

\* Delete / Backspace with selected bases
Delete ==
    /\ edits < MaxEdits
    /\ hasSelectedBases(selection)
    /\ isWithin(selection, Len(sequence))
    /\ LET result == deleteSelection(sequence, annotations, selection)
       IN  /\ sequence' = result.sequence
           /\ annotations' = result.annotations
    /\ selection' = selectionAfterDelete(selection, Len(sequence), circular)
    /\ last' = Edit("delete", selection, 0)
    /\ sent' = deleteCalls(sortDescending(selection))
    /\ backend' = applyCalls(backend, sent')
    /\ edits' = edits + 1
    /\ UNCHANGED <<circular, search, genbank>>

Next ==
    \/ Select
    \/ Clear
    \/ Insert
    \/ Replace
    \/ Delete

Spec == Init /\ [][Next]_vars

(***************************************************************************)
(* A session at the editor: besides select and the edits, selections are   *)
(* built up range by range with Ctrl+click and drag, selections may reach  *)
(* beyond the end of the sequence, and an edit whose parameters are        *)
(* invalid is rejected.                                                    *)
(***************************************************************************)
MaxRanges == 2          \* ranges of a selection built up with Ctrl+click

\* the annotation list a session is loaded with: a feature of one range
\* and a feature joined from two
SessionAnnotations(length) ==
    << <<PlainRange(1, length - 1)>>,
       <<PlainRange(0, 1), PlainRange(length - 1, length)>> >>

\* selections that reach one position beyond the end of the sequence
SelectionsBeyond(length) ==
    LET cursors == { <<PlainRange(length + 1, length + 1)>> }
        single == { <<PlainRange(a, length + 1)>> : a \in 0..length }
        double == { <<PlainRange(t[1], t[2]), PlainRange(t[3], length + 1)>> :
                        t \in { u \in (0..length) \X (0..length) \X (0..length) :
                                   u[1] < u[2] /\ u[2] <= u[3] } }
    IN  cursors \cup single \cup double

isDisjointFromAnything(range, domain) == TRUE

\* the range neither overlaps nor touches a range of the domain
isDisjointFrom(range, domain) ==
    \A i \in 1..Len(domain) :
        range.end < domain[i].start \/ domain[i].end < range.start

InitSession ==
    /\ sequence = BaseText(InitialLength)
    /\ circular \in BOOLEAN
    /\ annotations = SessionAnnotations(InitialLength)
    /\ selection = NoSelection
    /\ last = NoEdit
    /\ edits = 0
    /\ sent = <<>>
    /\ backend = sequence
    /\ search = NoSearch
    /\ genbank = <<>>

\* selection.select(text) with text that reaches beyond the sequence
SelectBeyond ==
    /\ edits < MaxEdits
    /\ selection = NoSelection \/ isEdited
    /\ \E domain \in SelectionsBeyond(Len(sequence)) : selection' = domain
    /\ last' = NoEdit
    /\ sent' = <<>>
    /\ UNCHANGED <<sequence, circular, annotations, edits, backend, search, genbank>>

\* selection.startSelection(position, true): Ctrl+click adds a cursor to the
\* selection
StartSelection ==
    /\ edits < MaxEdits
    /\ selection # NoSelection
    /\ Len(selection) < MaxRanges
    /\ \E position \in 0..Len(sequence) :
        /\ isDisjointFrom(PlainRange(position, position), selection)
        /\ selection' = Append(selection, PlainRange(position, position))
    /\ last' = Edit("startSelection", selection, 0)
    /\ sent' = <<>>
    /\ UNCHANGED <<sequence, circular, annotations, edits, backend, search, genbank>>

\* selection.updateSelection(position): the drag that follows the click
\* moves the end of the range the click added.  The drag is taken as one
\* step to the position the mouse is released at.
UpdateSelection ==
    /\ edits < MaxEdits
    /\ last.op = "startSelection"
    /\ LET n == Len(selection)
       IN  \E position \in (selection[n].start + 1)..Len(sequence) :
            LET dragged == [selection[n] EXCEPT !.end = position]
            IN  /\ isDisjointFrom(dragged, SubSeq(selection, 1, n - 1))
                /\ selection' = [selection EXCEPT ![n] = dragged]
    /\ last' = Edit("updateSelection", selection, 0)
    /\ sent' = <<>>
    /\ UNCHANGED <<sequence, circular, annotations, edits, backend, search, genbank>>

\* Delete / Backspace without selected bases, or with a selected range that
\* is not on the sequence
DeleteRejected ==
    /\ edits < MaxEdits
    /\ ~(hasSelectedBases(selection) /\ isWithin(selection, Len(sequence)))
    /\ last' = Edit("rejectedDelete", selection, 0)
    /\ sent' = <<>>
    /\ UNCHANGED <<sequence, circular, annotations, selection, edits, backend, search, genbank>>

\* the insert modal submitted with the cursor beyond the end of the sequence
InsertRejected ==
    /\ edits < MaxEdits
    /\ isCursor(selection)
    /\ ~isWithin(selection, Len(sequence))
    /\ \E text \in Texts : last' = Edit("rejectedInsert", selection, Len(text))
    /\ sent' = <<>>
    /\ UNCHANGED <<sequence, circular, annotations, selection, edits, backend, search, genbank>>

\* the insert modal submitted in replace mode with the selected range not
\* on the sequence
ReplaceRejected ==
    /\ edits < MaxEdits
    /\ isSingleRange(selection)
    /\ ~isWithin(selection, Len(sequence))
    /\ \E text \in Texts : last' = Edit("rejectedReplace", selection, Len(text))
    /\ sent' = <<>>
    /\ UNCHANGED <<sequence, circular, annotations, selection, edits, backend, search, genbank>>

NextSession ==
    \/ Select
    \/ SelectBeyond
    \/ StartSelection
    \/ UpdateSelection
    \/ Clear
    \/ Insert
    \/ Replace
    \/ Delete
    \/ DeleteRejected
    \/ InsertRejected
    \/ ReplaceRejected

SpecSession == InitSession /\ [][NextSession]_vars

(***************************************************************************)
(* Putting back what was deleted: after the delete of one range the insert *)
(* modal is submitted at the cursor the delete left, with a text from the  *)
(* modal or with the bases just deleted.                                   *)
(***************************************************************************)
Reinsert ==
    /\ last.op = "delete"
    /\ isCursor(selection)
    /\ \E text \in Texts \cup { slice(last.sequence, last.ranges[1].start, last.ranges[1].end) } :
        LET position == selection[1].start
        IN  /\ sequence' = insertText(sequence, position, text)
            /\ annotations' = applyEditToAll(annotations, position, 0, Len(text))
            /\ selection' = selectionAfterInsert(selection, Len(text))
            /\ last' = [last EXCEPT !.op = "reinsert", !.insertedLength = Len(text)]
            /\ sent' = <<insertCall(position, text)>>
            /\ backend' = applyCalls(backend, sent')
    /\ UNCHANGED <<circular, edits, search, genbank>>

NextReinsert ==
    \/ Select
    \/ Delete
    \/ Reinsert

SpecReinsert == Init /\ [][NextReinsert]_vars

(***************************************************************************)
(* The worked scenarios: the editor is mounted with the sequence and the   *)
(* annotations of a test of the annotation suite, a selection of the       *)
(* suite is set, and it is replaced with a text of the suite or deleted.   *)
(***************************************************************************)
Repeat(base, n) == [i \in 1..n |-> base]

\* the sequence set with setSequence and the spans of the annotations prop
ScenarioFixtures ==
    { [sequence |-> Repeat("A", 100), annotations |-> << <<PlainRange(10, 50)>> >>],
      [sequence |-> Repeat("A", 100), annotations |-> << <<PlainRange(25, 35)>> >>],
      [sequence |-> Repeat("A", 100), annotations |-> << <<PlainRange(15, 35)>> >>],
      [sequence |-> Repeat("A", 100), annotations |-> << <<PlainRange(25, 45)>> >>],
      [sequence |-> Repeat("A", 100),
       annotations |-> << <<PlainRange(5, 15)>>, <<PlainRange(25, 55)>>,
                          <<PlainRange(35, 45)>>, <<PlainRange(70, 90)>> >>],
      [sequence |-> Repeat("A", 50),
       annotations |-> << <<PlainRange(1, 5), PlainRange(10, 20)>> >>] }

\* the selections set by setupReplaceAtSelection and selection.select
ScenarioSelections ==
    { <<PlainRange(20, 25)>>, <<PlainRange(20, 30)>>, <<PlainRange(20, 40)>>,
      <<PlainRange(30, 50)>>,
      <<PlainRange(2, 4), PlainRange(8, 10)>>,
      <<PlainRange(2, 7), PlainRange(15, 24)>> }

\* the texts submitted through the insert modal
ScenarioTexts ==
    { Repeat("A", 5) \o Repeat("G", 5) \o Repeat("C", 5),
      Repeat("X", 3), Repeat("G", 4), Repeat("X", 5) }

InitScenario ==
    /\ \E fixture \in ScenarioFixtures :
        /\ sequence = fixture.sequence
        /\ annotations = fixture.annotations
    /\ circular \in BOOLEAN
    /\ selection = NoSelection
    /\ last = NoEdit
    /\ edits = 0
    /\ sent = <<>>
    /\ backend = sequence
    /\ search = NoSearch
    /\ genbank = <<>>

SelectScenario ==
    /\ edits < MaxEdits
    /\ selection = NoSelection \/ isEdited
    /\ \E domain \in ScenarioSelections :
        /\ isWithin(domain, Len(sequence))
        /\ selection' = domain
    /\ last' = NoEdit
    /\ sent' = <<>>
    /\ UNCHANGED <<sequence, circular, annotations, edits, backend, search, genbank>>

\* the insert modal submitted in replace mode with a text of the suite
ReplaceScenario ==
    /\ edits < MaxEdits
    /\ isSingleRange(selection)
    /\ isWithin(selection, Len(sequence))
    /\ \E text \in ScenarioTexts :
        LET r == selection[1]
        IN  /\ sequence' = insertText(deleteText(sequence, r.start, r.end), r.start, text)
            /\ annotations' = applyEditToAll(annotations, r.start, rangeLength(r), Len(text))
            /\ selection' = selectionAfterReplace(selection, Len(text))
            /\ last' = Edit("replace", selection, Len(text))
            /\ sent' = <<deleteCall(r), insertCall(r.start, text)>>
            /\ backend' = applyCalls(backend, sent')
    /\ edits' = edits + 1
    /\ UNCHANGED <<circular, search, genbank>>

NextScenario ==
    \/ SelectScenario
    \/ ReplaceScenario
    \/ Delete

SpecScenario == InitScenario /\ [][NextScenario]_vars

(***************************************************************************)
(* The annotation context menu: merging a segment of a span with its       *)
(* neighbour, and subtracting the span from the selection.                 *)
(***************************************************************************)
MenuLength == 5         \* length of the sequence the context menu is used on

Directions == {"left", "right"}

\* one range ends where the other starts
isAdjacent(a, b) == a.end = b.start \/ b.end = a.start

canMergeAnyOrientation(a, b) == isAdjacent(a, b)

\* the menu offers "Merge with left/right segment"
canMerge(a, b) == isAdjacent(a, b) /\ a.orientation = b.orientation

\* the one range that covers both
joined(a, b) ==
    LET first == IF a.start <= b.start THEN a ELSE b
        second == IF a.start <= b.start THEN b ELSE a
    IN  Range(first.start, second.end, a.orientation,
              first.startIndefinite, second.endIndefinite)

merge(span, rangeIndex, direction) ==
    LET other == IF direction = "right" THEN rangeIndex + 1 ELSE rangeIndex - 1
        lo == IF other < rangeIndex THEN other ELSE rangeIndex
        hi == IF other < rangeIndex THEN rangeIndex ELSE other
    IN  IF other \notin 1..Len(span)
        THEN span
        ELSE IF ~canMerge(span[lo], span[hi])
        THEN span
        ELSE SubSeq(span, 1, lo - 1) \o <<joined(span[lo], span[hi])>>
                \o SubSeq(span, hi + 1, Len(span))

cutFromKeepingLeft(piece, cut) ==
    IF cut.start < piece.end /\ cut.end > piece.start
    THEN IF piece.start < cut.start
         THEN <<[piece EXCEPT !.end = cut.start]>>
         ELSE <<>>
    ELSE <<piece>>

\* what is left of one range when the bases of another are taken out of
\* it: the part before the cut and the part after it, where they have bases
cutFrom(piece, cut) ==
    IF cut.start < piece.end /\ cut.end > piece.start
    THEN (IF piece.start < cut.start
          THEN <<[piece EXCEPT !.end = cut.start]>>
          ELSE <<>>)
         \o
         (IF cut.end < piece.end
          THEN <<[piece EXCEPT !.start = cut.end]>>
          ELSE <<>>)
    ELSE <<piece>>

RECURSIVE cutFromAll(_, _)
cutFromAll(pieces, cut) ==
    IF pieces = <<>>
    THEN <<>>
    ELSE cutFrom(Head(pieces), cut) \o cutFromAll(Tail(pieces), cut)

\* the selection domain minus every range of the span, one range of the
\* span after the other
RECURSIVE subtractFromSelection(_, _)
subtractFromSelection(span, domain) ==
    IF span = <<>>
    THEN domain
    ELSE subtractFromSelection(Tail(span), cutFromAll(domain, Head(span)))

\* the spans of the annotations the menu is opened on: one range, two
\* ranges in ascending order of any two orientations, two minus-strand
\* ranges in descending order, or three plus-strand ranges
MenuSpans(length) ==
    LET P == 0..length
        single == { <<Range(t[1], t[2], t[3], FALSE, FALSE)>> :
                        t \in { u \in P \X P \X {"Plus", "Minus"} : u[1] < u[2] } }
        pairs == { t \in P \X P \X P \X P : t[1] < t[2] /\ t[2] <= t[3] /\ t[3] < t[4] }
        ascending == { <<Range(t[1], t[2], o[1], FALSE, FALSE),
                         Range(t[3], t[4], o[2], FALSE, FALSE)>> :
                            <<t, o>> \in pairs \X ({"Plus", "Minus"} \X {"Plus", "Minus"}) }
        descending == { <<Range(t[3], t[4], "Minus", FALSE, FALSE),
                          Range(t[1], t[2], "Minus", FALSE, FALSE)>> : t \in pairs }
        triple == { <<PlainRange(t[1], t[2]), PlainRange(t[3], t[4]), PlainRange(t[5], t[6])>> :
                        t \in { u \in P \X P \X P \X P \X P \X P :
                                   /\ u[1] < u[2] /\ u[2] <= u[3]
                                   /\ u[3] < u[4] /\ u[4] <= u[5]
                                   /\ u[5] < u[6] } }
    IN  single \cup ascending \cup descending \cup triple

\* a menu operation on segment `rangeIndex` of annotation `annotation`
MenuEdit(op, annotation, rangeIndex, direction) ==
    [op |-> op, ranges |-> selection, insertedLength |-> 0,
     annotations |-> annotations, sequence |-> sequence, length |-> Len(sequence),
     circular |-> circular,
     annotation |-> annotation, rangeIndex |-> rangeIndex, direction |-> direction]

InitMenu ==
    /\ sequence = BaseText(MenuLength)
    /\ circular = FALSE
    /\ annotations \in { <<span>> : span \in MenuSpans(MenuLength) }
    /\ selection = NoSelection
    /\ last = NoEdit
    /\ edits = 0
    /\ sent = <<>>
    /\ backend = sequence
    /\ search = NoSearch
    /\ genbank = <<>>

\* "Merge with left segment" / "Merge with right segment" clicked on a
\* segment.  merge does not read the selection: it is taken with no
\* selection set.
Merge ==
    /\ selection = NoSelection
    /\ \E a \in 1..Len(annotations) :
        \E rangeIndex \in 1..Len(annotations[a]) :
            \E direction \in Directions :
                /\ annotations' = [annotations EXCEPT
                        ![a] = merge(annotations[a], rangeIndex, direction)]
                /\ last' = MenuEdit("merge", a, rangeIndex, direction)
    /\ sent' = <<>>
    /\ UNCHANGED <<sequence, circular, selection, edits, backend, search, genbank>>

\* "Subtract from selection" clicked on an annotation
SubtractFromSelection ==
    /\ selection # NoSelection
    /\ last.op # "subtract"
    /\ \E a \in 1..Len(annotations) :
        /\ selection' = subtractFromSelection(annotations[a], selection)
        /\ last' = MenuEdit("subtract", a, 0, "none")
    /\ sent' = <<>>
    /\ UNCHANGED <<sequence, circular, annotations, edits, backend, search, genbank>>

NextMenu ==
    \/ Select
    \/ Merge
    \/ SubtractFromSelection

SpecMenu == InitMenu /\ [][NextMenu]_vars

(***************************************************************************)
(* The search panel.  It selects the match it navigates to, and it closes  *)
(* when it is notified of a selection change while it is not navigating.   *)
(* The notification is the callback of a watcher of selection.domain: it   *)
(* runs when the handler that changed the selection has returned, before   *)
(* any timer callback and before any further input.                        *)
(***************************************************************************)
MaxTimers == 2          \* setTimeout callbacks of goToMatch not yet run

\* complement of reverseComplement, for the bases
complementOf(base) ==
    CASE base = "A" -> "T"
      [] base = "T" -> "A"
      [] base = "G" -> "C"
      [] base = "C" -> "G"
      [] OTHER -> base

reverseComplement(seq) ==
    [i \in 1..Len(seq) |-> complementOf(seq[Len(seq) + 1 - i])]

\* RegExp.exec with the g flag for a pattern of plain bases: the matches
\* from left to right, each search resuming where the last match ended
RECURSIVE execAll(_, _, _)
execAll(seq, pattern, lastIndex) ==
    LET found == { i \in lastIndex..(Len(seq) - Len(pattern)) :
                        SubSeq(seq, i + 1, i + Len(pattern)) = pattern }
    IN  IF found = {}
        THEN <<>>
        ELSE LET index == CHOOSE i \in found : \A j \in found : i <= j
             IN  <<index>> \o execAll(seq, pattern, index + Len(pattern))

\* matches.sort((a, b) => a.start - b.start)
RECURSIVE sortByStart(_)
sortByStart(matches) ==
    IF Len(matches) <= 1
    THEN matches
    ELSE LET i == CHOOSE k \in 1..Len(matches) :
                    /\ \A j \in 1..Len(matches) : matches[k].start <= matches[j].start
                    /\ \A j \in 1..(k - 1) : matches[j].start # matches[k].start
         IN  <<matches[i]>> \o sortByStart(removeAt(matches, i))

\* the matches performSearch finds for a query of plain bases
findMatches(seq, query) ==
    LET forwardStarts == execAll(seq, query, 0)
        forward == [i \in 1..Len(forwardStarts) |->
                        [start |-> forwardStarts[i],
                         end |-> forwardStarts[i] + Len(query), strand |-> "+"]]
        revComp == reverseComplement(query)
        reverseStarts == IF revComp # query THEN execAll(seq, revComp, 0) ELSE <<>>
        reverseAll == [i \in 1..Len(reverseStarts) |->
                        [start |-> reverseStarts[i],
                         end |-> reverseStarts[i] + Len(query), strand |-> "-"]]
        overlaps(m) == \E i \in 1..Len(forward) :
                            ~(m.start >= forward[i].end \/ m.end <= forward[i].start)
        isFree(m) == ~overlaps(m)
    IN  sortByStart(forward \o SelectSeq(reverseAll, isFree))

\* the selection setSelection sets for `start..end` or `(start..end)`
selectionOfMatch(match) ==
    <<Range(match.start, match.end,
            IF match.strand = "-" THEN "Minus" ELSE "Plus", FALSE, FALSE)>>

\* queries typed into the search input: nothing, or up to MaxTextLen bases
SearchQueries ==
    {<<>>} \cup UNION { [1..n -> {"A", "C", "G", "T"}] : n \in 1..MaxTextLen }

\* selections set by the user in the editor: a click, or a drag over up to
\* MaxTextLen bases
UserSelections(length) ==
    { <<PlainRange(p, p + n)>> :
        <<p, n>> \in { t \in (0..length) \X (0..MaxTextLen) : t[1] + t[2] <= length } }

\* the sequence the panel searches
SearchedSequence ==
    <<"A", "T", "C", "G", "A", "T", "C", "G", "A", "T", "C", "G">>

InitSearch ==
    /\ sequence = SearchedSequence
    /\ circular = FALSE
    /\ annotations = <<>>
    /\ selection = NoSelection
    /\ last = NoEdit
    /\ edits = 0
    /\ sent = <<>>
    /\ backend = sequence
    /\ search = NoSearch
    /\ genbank = <<>>

\* goToMatch(index), on the panel state `panel` its caller has left.  The
\* watcher is notified when the selection has changed; when setSelection
\* sets the selection that is set already, it may or may not be.
GoToMatch(panel, index) ==
    IF panel.matches = <<>>
    THEN /\ search' = [panel EXCEPT !.delivered = "none"]
         /\ UNCHANGED selection
    ELSE LET domain == selectionOfMatch(panel.matches[index + 1])
         IN  /\ selection' = domain
             /\ \E notified \in (IF domain # selection THEN {TRUE} ELSE BOOLEAN) :
                    search' = [panel EXCEPT
                        !.currentMatchIndex = index,
                        !.isNavigating = TRUE,
                        !.timers = @ + 1,
                        !.pending = IF notified THEN "navigation" ELSE "none",
                        !.delivered = "none"]

\* performSearch() with the query in the input
PerformSearch(query) ==
    IF query = <<>>
    THEN /\ search' = [search EXCEPT !.matches = <<>>, !.delivered = "none"]
         /\ UNCHANGED selection
    ELSE GoToMatch([search EXCEPT !.matches = findMatches(sequence, query),
                                  !.currentMatchIndex = 0], 0)

\* the toolbar button shows the panel; the panel searches for the selected
\* bases, if there are any.  For a minus-strand selection the bases are
\* those of either strand.
OpenSearch ==
    /\ search.pending = "none"
    /\ ~search.visible
    /\ search.timers < MaxTimers
    /\ IF hasSelectedBases(selection)
       THEN LET bases == slice(sequence, selection[1].start, selection[1].end)
            IN  \E query \in (IF selection[1].orientation = "Minus"
                              THEN {bases, reverseComplement(bases)}
                              ELSE {bases}) :
                    GoToMatch([search EXCEPT !.visible = TRUE,
                                             !.matches = findMatches(sequence, query),
                                             !.currentMatchIndex = 0], 0)
       ELSE /\ search' = [search EXCEPT !.visible = TRUE, !.matches = <<>>,
                                        !.delivered = "none"]
            /\ UNCHANGED selection
    /\ UNCHANGED <<sequence, circular, annotations, last, edits, sent, backend, genbank>>

\* input in the search field, or Enter with no match
Search ==
    /\ search.pending = "none"
    /\ search.visible
    /\ search.timers < MaxTimers
    /\ \E query \in SearchQueries : PerformSearch(query)
    /\ UNCHANGED <<sequence, circular, annotations, last, edits, sent, backend, genbank>>

\* Enter or the next button
NextMatch ==
    /\ search.pending = "none"
    /\ search.visible
    /\ search.timers < MaxTimers
    /\ search.matches # <<>>
    /\ GoToMatch(search, (search.currentMatchIndex + 1) % Len(search.matches))
    /\ UNCHANGED <<sequence, circular, annotations, last, edits, sent, backend, genbank>>

\* Shift+Enter or the previous button
PrevMatch ==
    /\ search.pending = "none"
    /\ search.visible
    /\ search.timers < MaxTimers
    /\ search.matches # <<>>
    /\ GoToMatch(search, (search.currentMatchIndex - 1 + Len(search.matches))
                            % Len(search.matches))
    /\ UNCHANGED <<sequence, circular, annotations, last, edits, sent, backend, genbank>>

\* Escape in the search field: closeSearch()
CloseSearch ==
    /\ search.pending = "none"
    /\ search.visible
    /\ search' = [search EXCEPT !.visible = FALSE, !.delivered = "none"]
    /\ UNCHANGED <<sequence, circular, annotations, selection, last, edits, sent, backend, genbank>>

\* the callback of setTimeout(..., 100) in goToMatch
TimerFires ==
    /\ search.pending = "none"
    /\ search.timers > 0
    /\ search' = [search EXCEPT !.isNavigating = FALSE, !.timers = @ - 1,
                                !.delivered = "none"]
    /\ UNCHANGED <<sequence, circular, annotations, selection, last, edits, sent, backend, genbank>>

\* the user changes the selection in the editor
SelectExternally ==
    /\ search.pending = "none"
    /\ \E domain \in UserSelections(Len(sequence)) :
        /\ domain # selection
        /\ selection' = domain
    /\ search' = [search EXCEPT !.pending = "external", !.delivered = "none"]
    /\ UNCHANGED <<sequence, circular, annotations, last, edits, sent, backend, genbank>>

\* the handler subscribed with onSelectionChange
OnSelectionChange ==
    /\ search.pending # "none"
    /\ search' = [search EXCEPT
            !.visible = IF search.visible /\ ~search.isNavigating THEN FALSE ELSE @,
            !.pending = "none",
            !.delivered = search.pending,
            !.wasVisible = search.visible]
    /\ UNCHANGED <<sequence, circular, annotations, selection, last, edits, sent, backend, genbank>>

NextSearch ==
    \/ OpenSearch
    \/ Search
    \/ NextMatch
    \/ PrevMatch
    \/ CloseSearch
    \/ TimerFires
    \/ SelectExternally
    \/ OnSelectionChange

SpecSearch == InitSearch /\ [][NextSearch]_vars

(***************************************************************************)
(* GenBank export and import of the example application.  A span is        *)
(* written as a GenBank location, 1-based and inclusive, and a location is *)
(* read back as a span.  The text of a span is taken range by range: a     *)
(* range in parentheses is a minus-strand range, a range in brackets has   *)
(* no orientation, `<` and `>` mark indefinite boundaries, and a           *)
(* zero-length range is written as its bare position.                      *)
(***************************************************************************)
\* the text of the range is a bare position, as `20`
isPosition(range) == range.start = range.end

\* rangeStr.startsWith('(') && rangeStr.endsWith(')')
isComplement(range) == range.orientation = "Minus"

\* convertSingleRange: `start..end` becomes `start+1..end` with its
\* markers, parentheses and brackets taken off; a text that is no
\* `start..end` is returned as it is
convertSingleRange(range) ==
    IF isPosition(range)
    THEN [position |-> TRUE, start |-> range.start, end |-> range.end,
          startIndefinite |-> FALSE, endIndefinite |-> FALSE]
    ELSE [position |-> FALSE, start |-> range.start + 1, end |-> range.end,
          startIndefinite |-> range.startIndefinite,
          endIndefinite |-> range.endIndefinite]

\* convertSpanToLocation: join(...) for a span with ` + `, and
\* complement(...) around it when every range is in parentheses
convertSpanToLocation(span) ==
    [complement |-> \A i \in 1..Len(span) : isComplement(span[i]),
     join |-> Len(span) > 1,
     parts |-> [i \in 1..Len(span) |-> convertSingleRange(span[i])]]

\* convertSingleLocation: `start..end` becomes `start-1..end`, a single
\* position `p` becomes `p-1..p`, in parentheses inside a complement
convertSingleLocation(part, complement) ==
    IF part.position
    THEN Range(part.start - 1, part.start, IF complement THEN "Minus" ELSE "Plus",
               part.startIndefinite, part.endIndefinite)
    ELSE Range(part.start - 1, part.end, IF complement THEN "Minus" ELSE "Plus",
               part.startIndefinite, part.endIndefinite)

\* convertLocation
convertLocation(location) ==
    [i \in 1..Len(location.parts) |->
        convertSingleLocation(location.parts[i], location.complement)]

\* the spans of the annotations that are exported: one range of any
\* orientation with any indefinite markers, a zero-length plus-strand
\* range, or two ranges of any two orientations, the first with or without
\* `<` and the second with or without `>`
GenBankSpans(length) ==
    LET P == 0..length
        single == { <<Range(t[1], t[2], t[3], t[4], t[5])>> :
                        t \in { u \in P \X P \X Orientation \X BOOLEAN \X BOOLEAN :
                                   u[1] < u[2] } }
        points == { <<PlainRange(p, p)>> : p \in P }
        joins == { <<Range(t[1], t[2], t[5], t[7], FALSE),
                     Range(t[3], t[4], t[6], FALSE, t[8])>> :
                        t \in { u \in P \X P \X P \X P \X Orientation \X Orientation
                                        \X BOOLEAN \X BOOLEAN :
                                   u[1] < u[2] /\ u[2] <= u[3] /\ u[3] < u[4] } }
    IN  single \cup points \cup joins

InitGenBank ==
    /\ sequence = BaseText(InitialLength)
    /\ circular = FALSE
    /\ annotations \in { <<span>> : span \in GenBankSpans(InitialLength) }
    /\ selection = NoSelection
    /\ last = NoEdit
    /\ edits = 0
    /\ sent = <<>>
    /\ backend = sequence
    /\ search = NoSearch
    /\ genbank = <<>>

\* toGenBank(data): one FEATURES line per annotation
ToGenBank ==
    /\ genbank = <<>>
    /\ genbank' = [a \in 1..Len(annotations) |-> convertSpanToLocation(annotations[a])]
    /\ last' = Edit("toGenBank", <<>>, 0)
    /\ sent' = <<>>
    /\ UNCHANGED <<sequence, circular, annotations, selection, edits, backend, search>>

\* parseGenBank(text) of the text written last, loaded into the editor
ParseGenBank ==
    /\ genbank # <<>>
    /\ last.op = "toGenBank"
    /\ annotations' = [a \in 1..Len(genbank) |-> convertLocation(genbank[a])]
    /\ last' = Edit("parseGenBank", <<>>, 0)
    /\ sent' = <<>>
    /\ UNCHANGED <<sequence, circular, selection, edits, backend, search, genbank>>

NextGenBank ==
    \/ ToGenBank
    \/ ParseGenBank

SpecGenBank == InitGenBank /\ [][NextGenBank]_vars

(***************************************************************************)
(* Properties.  `last` holds the edit performed last and the annotation    *)
(* list it started from; the properties compare that list with the         *)
(* current one.                                                            *)
(***************************************************************************)

\* the last step was one insert, one replace, or the delete of one range
isSingleEdit ==
    /\ last.op \in {"insert", "replace", "delete"}
    /\ Len(last.ranges) = 1

lastEditStart == last.ranges[1].start
lastRemoved == rangeLength(last.ranges[1])
lastInserted == last.insertedLength
lastEditEnd == lastEditStart + lastRemoved
lastDelta == lastInserted - lastRemoved

\* the ranges the last edit started from, as <<annotation, index>> pairs
RangesBefore ==
    UNION { { <<a, i>> : i \in 1..Len(last.annotations[a]) } :
                a \in 1..Len(last.annotations) }

before(p) == last.annotations[p[1]][p[2]]

\* what range p has become: its place in the span, or the single point of
\* a span that has become degenerate
after(p) ==
    IF Len(annotations[p[1]]) = Len(last.annotations[p[1]])
    THEN annotations[p[1]][p[2]]
    ELSE annotations[p[1]][1]

isInsideRange(r) == r.start < lastEditStart /\ r.end > lastEditEnd
isAfterEdit(r) == r.start >= lastEditEnd
isBeforeEdit(r) == r.end <= lastEditStart
isContained(r) == lastRemoved > 0 /\ r.start >= lastEditStart /\ r.end <= lastEditEnd
isLeftOverlap(r) ==
    r.start < lastEditStart /\ lastEditStart < r.end /\ r.end <= lastEditEnd
isRightOverlap(r) ==
    lastEditStart <= r.start /\ r.start < lastEditEnd /\ r.end > lastEditEnd

\* C1: when the edit lies fully inside a range (range.start < editStart and
\* range.end > editStart + removedLength), the range keeps its start and its
\* end moves by insertedLength - removedLength, for insert, delete and replace.
C1_EditInsideRange ==
    isSingleEdit =>
        \A p \in RangesBefore :
            isInsideRange(before(p)) =>
                /\ after(p).start = before(p).start
                /\ after(p).end = before(p).end + lastDelta

C1_Witness ==
    /\ isSingleEdit
    /\ last.op = "replace"
    /\ lastDelta # 0
    /\ \E p \in RangesBefore :
        /\ isInsideRange(before(p))
        /\ after(p).end = before(p).end + lastDelta

\* C2 as stated: every range with range.start >= editEnd has its start and
\* its end shifted by delta (read here for the non-empty ranges only).
C2_Original ==
    isSingleEdit =>
        \A p \in RangesBefore :
            (isAfterEdit(before(p)) /\ before(p).start < before(p).end) =>
                /\ after(p).start = before(p).start + lastDelta
                /\ after(p).end = before(p).end + lastDelta

\* C2 (amended): every range with range.start >= editEnd and
\* range.start > editStart has its start and its end shifted by delta, so
\* its length is unchanged; a pure insertion exactly at range.start is the
\* excluded case.
C2_ShiftAfterEdit ==
    isSingleEdit =>
        \A p \in RangesBefore :
            (isAfterEdit(before(p)) /\ before(p).start > lastEditStart) =>
                /\ after(p).start = before(p).start + lastDelta
                /\ after(p).end = before(p).end + lastDelta
                /\ rangeLength(after(p)) = rangeLength(before(p))

C2_Witness ==
    /\ isSingleEdit
    /\ last.op = "replace"
    /\ lastDelta # 0
    /\ \E p \in RangesBefore :
        /\ isAfterEdit(before(p))
        /\ after(p).start = before(p).start + lastDelta

\* C3: a range with range.end <= editStart is returned unchanged: same
\* start, end, orientation and indefinite flags.
C3_BeforeEditUnchanged ==
    isSingleEdit =>
        \A p \in RangesBefore :
            isBeforeEdit(before(p)) => after(p) = before(p)

C3_Witness ==
    /\ isSingleEdit
    /\ last.op = "replace"
    /\ lastDelta # 0
    /\ \E p \in RangesBefore :
        /\ isBeforeEdit(before(p))
        /\ before(p).start < before(p).end
        /\ before(p).orientation = "Minus"
        /\ before(p).startIndefinite
        /\ after(p) = before(p)

\* C4: a pure insertion of n >= 1 characters exactly at range.start of a
\* non-empty range leaves the start in place and moves the end by n.
C4_InsertAtStartExpands ==
    (isSingleEdit /\ last.op = "insert" /\ lastInserted >= 1) =>
        \A p \in RangesBefore :
            (before(p).start = lastEditStart /\ before(p).end > before(p).start) =>
                /\ after(p).start = before(p).start
                /\ after(p).end = before(p).end + lastInserted

C4_Witness ==
    /\ isSingleEdit
    /\ last.op = "insert"
    /\ \E p \in RangesBefore :
        /\ before(p).start = lastEditStart
        /\ before(p).end > before(p).start
        /\ rangeLength(after(p)) = rangeLength(before(p)) + lastInserted

\* C5: a pure insertion exactly at range.end changes neither the start nor
\* the end of the range.
C5_InsertAtEndUnchanged ==
    (isSingleEdit /\ last.op = "insert") =>
        \A p \in RangesBefore :
            before(p).end = lastEditStart =>
                /\ after(p).start = before(p).start
                /\ after(p).end = before(p).end

C5_Witness ==
    /\ isSingleEdit
    /\ last.op = "insert"
    /\ Len(sequence) > last.length
    /\ \E p \in RangesBefore :
        /\ before(p).end = lastEditStart
        /\ before(p).start < before(p).end
        /\ after(p).end = before(p).end

\* C6 as stated: a range contained in the removed region collapses to a
\* zero-length range at editStart + insertedLength (read here for the
\* non-empty ranges only).
C6_Original ==
    isSingleEdit =>
        \A p \in RangesBefore :
            (isContained(before(p)) /\ before(p).start < before(p).end) =>
                /\ after(p).start = lastEditStart + lastInserted
                /\ after(p).end = lastEditStart + lastInserted

\* C6 (amended): for an edit with removedLength > 0, every range with
\* editStart <= range.start < editEnd and range.end <= editEnd collapses to
\* a zero-length range at editStart, whatever the inserted length.
C6_ContainedCollapsesToEditStart ==
    isSingleEdit =>
        \A p \in RangesBefore :
            (isContained(before(p)) /\ before(p).start < lastEditEnd) =>
                /\ after(p).start = lastEditStart
                /\ after(p).end = lastEditStart

C6_Witness ==
    /\ isSingleEdit
    /\ last.op = "replace"
    /\ \E p \in RangesBefore :
        /\ isContained(before(p))
        /\ before(p).start > lastEditStart
        /\ before(p).start < before(p).end
        /\ after(p).start = lastEditStart
        /\ after(p).end = lastEditStart

\* C7 as stated: a range that starts before the edit and ends inside it
\* keeps its start and has its end set to editStart + insertedLength.
C7_Original ==
    isSingleEdit =>
        \A p \in RangesBefore :
            isLeftOverlap(before(p)) =>
                /\ after(p).start = before(p).start
                /\ after(p).end = lastEditStart + lastInserted

\* C7 (amended): a range with range.start < editStart and
\* editStart < range.end <= editEnd keeps its start and has its end
\* truncated to editStart, whatever the inserted length.
C7_LeftOverlapTruncatedToEditStart ==
    isSingleEdit =>
        \A p \in RangesBefore :
            isLeftOverlap(before(p)) =>
                /\ after(p).start = before(p).start
                /\ after(p).end = lastEditStart

C7_Witness ==
    /\ isSingleEdit
    /\ last.op = "replace"
    /\ \E p \in RangesBefore :
        /\ isLeftOverlap(before(p))
        /\ before(p).end < lastEditEnd
        /\ after(p).end = lastEditStart

\* C8: a range with editStart <= range.start < editEnd and
\* range.end > editEnd has its start moved to editStart + insertedLength and
\* its end shifted by insertedLength - removedLength.
C8_RightOverlapMovesAfterText ==
    isSingleEdit =>
        \A p \in RangesBefore :
            isRightOverlap(before(p)) =>
                /\ after(p).start = lastEditStart + lastInserted
                /\ after(p).end = before(p).end + lastDelta

C8_Witness ==
    /\ isSingleEdit
    /\ last.op = "replace"
    /\ lastDelta # 0
    /\ \E p \in RangesBefore :
        /\ isRightOverlap(before(p))
        /\ before(p).start > lastEditStart
        /\ after(p).start = lastEditStart + lastInserted

\* the delete adjustment of one range applied to every span, once per
\* selected range, always taking the remaining range that starts highest
RECURSIVE deleteHighestFirst(_, _)
deleteHighestFirst(spans, ranges) ==
    IF ranges = {}
    THEN spans
    ELSE LET r == CHOOSE x \in ranges : \A y \in ranges : y.start <= x.start
         IN  deleteHighestFirst(
                [a \in 1..Len(spans) |-> applyEdit(spans[a], r.start, rangeLength(r), 0)],
                ranges \ {r})

lastRanges == { last.ranges[i] : i \in 1..Len(last.ranges) }

isMultiRangeDelete == last.op = "delete" /\ Len(last.ranges) > 1

\* C9 as stated: after the delete of several ranges every annotation span
\* and every selection range is the result of the single-range delete
\* adjustments, highest range first.
C9_Original ==
    isMultiRangeDelete =>
        /\ annotations = deleteHighestFirst(last.annotations, lastRanges)
        /\ selection # NoSelection
        /\ \A i \in 1..Len(selection) :
            \E j \in 1..Len(deleteHighestFirst(<<last.ranges>>, lastRanges)[1]) :
                selection[i] = deleteHighestFirst(<<last.ranges>>, lastRanges)[1][j]

\* C9 (amended): after the delete of several ranges every annotation span
\* is the result of applying the single-range delete adjustment once per
\* selected range, highest start first, each to all spans before the next;
\* the selection domain is not adjusted this way (it becomes a cursor or null).
C9_MultiRangeDeleteHighestFirst ==
    isMultiRangeDelete =>
        annotations = deleteHighestFirst(last.annotations, lastRanges)

\* both deleted ranges cut into the two-range span, as in `1..5 + 10..20`
\* with `2..7 + 15..24` selected
C9_Witness ==
    /\ isMultiRangeDelete
    /\ Len(last.annotations[1]) = 2
    /\ last.annotations[1][1].start < last.ranges[1].start
    /\ last.ranges[1].start < last.annotations[1][1].end
    /\ last.annotations[1][2].start < last.ranges[2].start
    /\ last.ranges[2].start < last.annotations[1][2].end
    /\ Len(annotations[1]) = 2
    /\ annotations[1][1].end = last.ranges[1].start
    /\ annotations[1][2].end = last.ranges[2].start - rangeLength(last.ranges[1])

\* C10: after a replace of the selection starting at editStart with text of
\* length insertedLength, the selection domain is exactly the one range
\* [editStart, editStart + insertedLength).
C10_SelectionAfterReplace ==
    last.op = "replace" =>
        /\ selection # NoSelection
        /\ Len(selection) = 1
        /\ selection[1].start = lastEditStart
        /\ selection[1].end = lastEditStart + lastInserted

C10_Witness ==
    /\ last.op = "replace"
    /\ lastRemoved > lastInserted
    /\ Len(selection) = 1
    /\ rangeLength(selection[1]) = lastInserted

(***************************************************************************)
(* The selection left by a delete.                                         *)
(***************************************************************************)
\* the lowest start among the ranges that were deleted
lastLowestStart ==
    CHOOSE p \in { r.start : r \in lastRanges } :
        \A r \in lastRanges : p <= r.start

\* the deleted range that follows r in coordinate order, r itself if none
nextDeleted(r) ==
    IF \E x \in lastRanges : x.start > r.start
    THEN CHOOSE x \in lastRanges :
            /\ x.start > r.start
            /\ \A y \in lastRanges : y.start > r.start => x.start <= y.start
    ELSE r

isHighestDeleted(r) == \A x \in lastRanges : x.start <= r.start

\* the deleted ranges after which a stretch of bases is left standing
\* before the next deleted range
lastGaps ==
    { r \in lastRanges : ~isHighestDeleted(r) /\ r.end # nextDeleted(r).start }

\* the deleted ranges reach both ends of a circular sequence
lastJoinsThroughOrigin ==
    /\ last.circular
    /\ \E r \in lastRanges : r.end = last.length
    /\ lastLowestStart = 0

isCursorAt(domain, position) ==
    /\ domain # NoSelection
    /\ Len(domain) = 1
    /\ domain[1].start = position
    /\ domain[1].end = position

\* C11: after a delete of a single non-empty range, or of several ranges
\* with no gap between consecutive ones, the selection domain is exactly
\* one zero-length cursor at the lowest start among the deleted ranges.
C11_CursorAfterAdjacentDelete ==
    (last.op = "delete" /\ lastGaps = {}) =>
        isCursorAt(selection, lastLowestStart)

\* two adjacent ranges deleted, as in `5..10 + 10..15`
C11_Witness ==
    /\ isMultiRangeDelete
    /\ lastGaps = {}
    /\ last.ranges[1].end = last.ranges[2].start
    /\ isCursorAt(selection, last.ranges[1].start)

\* C12: after a delete of several ranges with a gap between two of them,
\* the ranges not joining through the origin of a circular sequence, the
\* selection domain is null.
C12_NoSelectionAfterGappedDelete ==
    (isMultiRangeDelete /\ lastGaps # {} /\ ~lastJoinsThroughOrigin) =>
        selection = NoSelection

\* a gap between the two deleted ranges, as in `5..10 + 15..18`
C12_Witness ==
    /\ isMultiRangeDelete
    /\ last.ranges[1].end < last.ranges[2].start
    /\ ~lastJoinsThroughOrigin
    /\ selection = NoSelection

\* the deleted ranges join end to end around a circular sequence: at most
\* one junction between consecutive ranges is open, the junction across the
\* origin counting as closed when the ranges reach both ends
isContiguousWithWrap ==
    \/ lastGaps = {}
    \/ Cardinality(lastGaps) = 1 /\ lastJoinsThroughOrigin

\* C13: on a circular sequence the delete of several ranges leaves a
\* single cursor exactly when the deleted ranges are contiguous with wrap,
\* and that cursor is at the lowest start among the deleted ranges.
C13_CursorIffContiguousWithWrap ==
    (isMultiRangeDelete /\ last.circular) =>
        /\ isContiguousWithWrap <=> selection # NoSelection
        /\ selection # NoSelection => isCursorAt(selection, lastLowestStart)

\* the two deleted ranges join only through the origin, as in
\* `0..5 + 15..20` on 20 bases
C13_Witness ==
    /\ isMultiRangeDelete
    /\ last.circular
    /\ last.ranges[1].start = 0
    /\ last.ranges[1].end < last.ranges[2].start
    /\ last.ranges[2].end = last.length
    /\ isCursorAt(selection, 0)

(***************************************************************************)
(* Invariants of ranges and of the selection domain.                       *)
(***************************************************************************)
isWellFormed(r) == 0 <= r.start /\ r.start <= r.end

\* C14: in every state reached by insert, delete and replace edits from
\* ranges with 0 <= start <= end, every range of every annotation span and
\* of the selection domain satisfies 0 <= start <= end.
C14_RangesWellFormed ==
    /\ \A a \in 1..Len(annotations) :
        \A i \in 1..Len(annotations[a]) : isWellFormed(annotations[a][i])
    /\ \A i \in 1..Len(selection) : isWellFormed(selection[i])

\* a range with bases has been collapsed by an edit that removed them all
C14_Witness ==
    /\ isSingleEdit
    /\ lastRemoved > 0
    /\ \E p \in RangesBefore :
        /\ before(p).start < before(p).end
        /\ isContained(before(p))
        /\ after(p).start = after(p).end
    /\ selection # NoSelection

isAttempt == last.op \in {"insert", "replace", "delete",
                           "rejectedInsert", "rejectedReplace", "rejectedDelete"}

\* the parameters of the edit attempted last were valid: every position on
\* the sequence, and for a delete or replace some base selected
hasValidParameters ==
    /\ last.ranges # NoSelection
    /\ \A r \in lastRanges : 0 <= r.start /\ r.end <= last.length
    /\ last.op \in {"insert", "rejectedInsert"} \/ \E r \in lastRanges : r.start < r.end

isReinserted ==
    /\ last.op = "reinsert"
    /\ Len(last.ranges) = 1
    /\ lastInserted = lastRemoved

\* the half-open intervals of r and of the deleted range overlap
overlapsDeleted(r) == r.start < lastEditEnd /\ r.end > lastEditStart

\* C18 as stated: after the delete of [s, e) and the insert of a text of
\* length e - s at s, every annotation none of whose ranges overlapped
\* [s, e) has the span it had before the delete.
C18_Original ==
    isReinserted =>
        \A a \in 1..Len(annotations) :
            (\A i \in 1..Len(last.annotations[a]) :
                /\ last.annotations[a][i].start < last.annotations[a][i].end
                /\ ~overlapsDeleted(last.annotations[a][i]))
            => annotations[a] = last.annotations[a]

\* C18 (amended): after the delete of [s, e) and the insert of a text of
\* length e - s at s, every annotation whose ranges all ended at or before
\* s or started after e has the span it had before the delete; a range
\* that started exactly at e is not restored.
C18_ReinsertRestoresUnrelated ==
    isReinserted =>
        \A a \in 1..Len(annotations) :
            (\A i \in 1..Len(last.annotations[a]) :
                \/ last.annotations[a][i].end <= lastEditStart
                \/ last.annotations[a][i].start > lastEditEnd)
            => annotations[a] = last.annotations[a]

\* a span with one range before and one range after the deleted bases has
\* been restored
C18_Witness ==
    /\ isReinserted
    /\ lastRemoved > 0
    /\ Len(last.annotations[1]) = 2
    /\ last.annotations[1][1].end <= lastEditStart
    /\ last.annotations[1][2].start > lastEditEnd
    /\ annotations[1] = last.annotations[1]

(***************************************************************************)
(* The order of the deletions of a multi-range delete.                     *)
(***************************************************************************)
shiftedDown(ranges, length) ==
    { [r EXCEPT !.start = @ - length, !.end = @ - length] : r \in ranges }

\* the spans after deleting the ranges one by one from the lowest start to
\* the highest, each deletion applied to all spans and to the positions of
\* the ranges still to be deleted
RECURSIVE deleteLowestFirst(_, _)
deleteLowestFirst(spans, ranges) ==
    IF ranges = {}
    THEN spans
    ELSE LET r == CHOOSE x \in ranges : \A y \in ranges : x.start <= y.start
         IN  deleteLowestFirst(applyEditToAll(spans, r.start, rangeLength(r), 0),
                               shiftedDown(ranges \ {r}, rangeLength(r)))

hasNoPoint(spans) ==
    \A a \in 1..Len(spans) :
        \A i \in 1..Len(spans[a]) : spans[a][i].start < spans[a][i].end

isAllCollapsed(a) ==
    \A i \in 1..Len(last.annotations[a]) :
        /\ last.annotations[a][i].start < last.annotations[a][i].end
        /\ isContained(last.annotations[a][i])

\* C20: an edit that collapses every range of an annotation's span leaves
\* the annotation in the list, with a span of exactly one zero-length range
\* at the edit position.
C20_CollapsedAnnotationIsKept ==
    isSingleEdit =>
        /\ Len(annotations) = Len(last.annotations)
        /\ \A a \in 1..Len(last.annotations) :
            isAllCollapsed(a) =>
                /\ Len(annotations[a]) = 1
                /\ annotations[a][1].start = lastEditStart
                /\ annotations[a][1].end = lastEditStart

\* both ranges of a two-range span were inside the replaced bases
C20_Witness ==
    /\ last.op = "replace"
    /\ Len(last.annotations[1]) = 2
    /\ isAllCollapsed(1)
    /\ Len(annotations) = 1
    /\ Len(annotations[1]) = 1
    /\ annotations[1][1].start = annotations[1][1].end

(***************************************************************************)
(* The worked scenarios.                                                   *)
(***************************************************************************)
isReplaceOf(start, end, length) ==
    /\ last.op = "replace"
    /\ last.ranges = <<PlainRange(start, end)>>
    /\ lastInserted = length

\* C21 as stated: with annotation `10..50`, replacing the selection `20..30`
\* with a text of 15 characters changes the length by +10 and gives the
\* span `10..60`.
C21_Original ==
    (isReplaceOf(20, 30, 15) /\ last.annotations = << <<PlainRange(10, 50)>> >>) =>
        /\ Len(sequence) = last.length + 10
        /\ annotations = << <<PlainRange(10, 60)>> >>

\* C21 (amended): with annotation `10..50`, replacing the selection `20..25`
\* with a text of 15 characters changes the length by +10 and gives the
\* span `10..60`; replacing `20..30` changes it by +5 and gives `10..55`.
C21_ScenarioC ==
    /\ (isReplaceOf(20, 25, 15) /\ last.annotations = << <<PlainRange(10, 50)>> >>) =>
            /\ Len(sequence) = last.length + 10
            /\ annotations = << <<PlainRange(10, 60)>> >>
    /\ (isReplaceOf(20, 30, 15) /\ last.annotations = << <<PlainRange(10, 50)>> >>) =>
            /\ Len(sequence) = last.length + 5
            /\ annotations = << <<PlainRange(10, 55)>> >>

C21_Witness ==
    /\ isReplaceOf(20, 25, 15)
    /\ last.annotations = << <<PlainRange(10, 50)>> >>
    /\ annotations = << <<PlainRange(10, 60)>> >>

\* C22: a replace of a selection that fully contains an annotation (every
\* range of its span, each with bases) leaves
\* the annotation as one zero-length point at the selection start, whatever
\* the length of the text: with `20..40` selected, annotation `25..35`
\* becomes the point `20`.
C22_ScenarioD ==
    last.op = "replace" =>
        \A a \in 1..Len(last.annotations) :
            (\A i \in 1..Len(last.annotations[a]) :
                /\ lastEditStart <= last.annotations[a][i].start
                /\ last.annotations[a][i].start < last.annotations[a][i].end
                /\ last.annotations[a][i].end <= lastEditEnd)
            => annotations[a] = <<PlainRange(lastEditStart, lastEditStart)>>

C22_Witness ==
    /\ isReplaceOf(20, 40, 3)
    /\ last.annotations = << <<PlainRange(25, 35)>> >>
    /\ annotations = << <<PlainRange(20, 20)>> >>

isDeleteOf(ranges) ==
    /\ last.op = "delete"
    /\ last.ranges = ranges

\* C23 as stated: deleting the selection `2..4 + 8..10` from an annotation
\* with span `1..5 + 10..20` gives the span `1..2 + 5..10`.
C23_Original ==
    (/\ isDeleteOf(<<PlainRange(2, 4), PlainRange(8, 10)>>)
     /\ last.annotations = << <<PlainRange(1, 5), PlainRange(10, 20)>> >>) =>
        annotations = << <<PlainRange(1, 2), PlainRange(5, 10)>> >>

\* C23 (amended): deleting the selection `2..7 + 15..24` from an annotation
\* with span `1..5 + 10..20` gives the span `1..2 + 5..10`; deleting
\* `2..4 + 8..10` gives `1..3 + 6..16`.
C23_ScenarioE ==
    /\ (/\ isDeleteOf(<<PlainRange(2, 7), PlainRange(15, 24)>>)
        /\ last.annotations = << <<PlainRange(1, 5), PlainRange(10, 20)>> >>) =>
            annotations = << <<PlainRange(1, 2), PlainRange(5, 10)>> >>
    /\ (/\ isDeleteOf(<<PlainRange(2, 4), PlainRange(8, 10)>>)
        /\ last.annotations = << <<PlainRange(1, 5), PlainRange(10, 20)>> >>) =>
            annotations = << <<PlainRange(1, 3), PlainRange(6, 16)>> >>

C23_Witness ==
    /\ isDeleteOf(<<PlainRange(2, 7), PlainRange(15, 24)>>)
    /\ last.annotations = << <<PlainRange(1, 5), PlainRange(10, 20)>> >>
    /\ annotations = << <<PlainRange(1, 2), PlainRange(5, 10)>> >>

(***************************************************************************)
(* The backend channel.                                                    *)
(***************************************************************************)
\* C24: the delete of a selection of k >= 2 disjoint ranges makes exactly k
\* backend.delete calls, one for each selected range with the start and the
\* end the range had in the selection, the calls in descending order of
\* start.
C24_DeleteCallsDescending ==
    isMultiRangeDelete =>
        /\ Len(sent) = Len(last.ranges)
        /\ \A i \in 1..Len(sent) : sent[i].call = "delete"
        /\ \A r \in lastRanges :
            Cardinality({ i \in 1..Len(sent) :
                            sent[i].start = r.start /\ sent[i].end = r.end }) = 1
        /\ \A i, j \in 1..Len(sent) : i < j => sent[i].start > sent[j].start

\* the calls of `2..4 + 8..10`: the second range first
C24_Witness ==
    /\ isMultiRangeDelete
    /\ last.ranges[1].end < last.ranges[2].start
    /\ Len(sent) = 2
    /\ sent[1].start = last.ranges[2].start
    /\ sent[1].end = last.ranges[2].end
    /\ sent[2].start = last.ranges[1].start
    /\ sent[2].end = last.ranges[1].end

\* C30: after any sequence of inserts and deletes of one or several ranges,
\* the backend, which started with the editor's sequence and applied every
\* insert and delete call as received and in the order received, holds the
\* sequence text the editor holds.
C30_BackendHoldsTheSequence ==
    backend = sequence

\* two ranges were deleted and a text was then inserted at the cursor the
\* delete left
C30_Witness ==
    /\ last.op = "reinsert"
    /\ Len(last.ranges) = 2
    /\ lastInserted > 0
    /\ backend = sequence
    /\ sequence # last.sequence

(***************************************************************************)
(* The annotation context menu.                                            *)
(***************************************************************************)
\* the positions of the bases of a list of ranges
positionsOf(ranges) ==
    UNION { ranges[i].start..(ranges[i].end - 1) : i \in 1..Len(ranges) }

lastSpan == last.annotations[last.annotation]

\* the neighbour of the segment the menu was opened on, 0 if there is none
lastNeighbour ==
    LET other == IF last.direction = "right"
                 THEN last.rangeIndex + 1
                 ELSE last.rangeIndex - 1
    IN  IF other \in 1..Len(lastSpan) THEN other ELSE 0

\* C25: merge on a range of a span puts one range covering both in the
\* place of the range and its neighbour in the given direction exactly when
\* the two are adjacent (one ends where the other starts) and have the same
\* orientation; otherwise, and when there is no neighbour, the span is
\* left unchanged.  The other ranges of the span are kept as they are.
C25_MergeIffAdjacentSameOrientation ==
    last.op = "merge" =>
        LET span == annotations[last.annotation]
            i == last.rangeIndex
            j == lastNeighbour
            lo == IF j < i THEN j ELSE i
        IN  IF /\ j # 0
               /\ \/ lastSpan[i].end = lastSpan[j].start
                  \/ lastSpan[j].end = lastSpan[i].start
               /\ lastSpan[i].orientation = lastSpan[j].orientation
            THEN /\ Len(span) = Len(lastSpan) - 1
                 /\ positionsOf(<<span[lo]>>) = positionsOf(<<lastSpan[i], lastSpan[j]>>)
                 /\ span[lo].orientation = lastSpan[i].orientation
                 /\ \A k \in 1..Len(span) :
                        k # lo => span[k] = lastSpan[IF k < lo THEN k ELSE k + 1]
            ELSE span = lastSpan

\* `10..20 + 20..30` merged to `10..30`
C25_Witness ==
    /\ last.op = "merge"
    /\ last.direction = "right"
    /\ Len(lastSpan) = 2
    /\ lastSpan[1].end = lastSpan[2].start
    /\ Len(annotations[1]) = 1
    /\ annotations[1][1].start = lastSpan[1].start
    /\ annotations[1][1].end = lastSpan[2].end

\* C26: subtractFromSelection gives a list of ranges, in ascending order
\* and no two overlapping, each a part of a range of the selection, that
\* covers exactly the positions that lie in a range of the selection and in
\* no range of the annotation's span.
C26_SubtractIsIntervalDifference ==
    last.op = "subtract" =>
        /\ \A i \in 1..Len(selection) :
            /\ selection[i].start <= selection[i].end
            /\ \E j \in 1..Len(last.ranges) :
                /\ last.ranges[j].start <= selection[i].start
                /\ selection[i].end <= last.ranges[j].end
        /\ \A i \in 1..(Len(selection) - 1) : selection[i].end <= selection[i + 1].start
        /\ positionsOf(selection) = positionsOf(last.ranges) \ positionsOf(lastSpan)

\* each of two selected ranges loses bases to a range of a two-range span,
\* as `2..7 + 15..24` minus `1..5 + 10..20`
C26_Witness ==
    /\ last.op = "subtract"
    /\ Len(last.ranges) = 2
    /\ Len(lastSpan) = 2
    /\ Len(selection) = 2
    /\ \A i \in 1..2 :
        /\ rangeLength(selection[i]) < rangeLength(last.ranges[i])
        /\ positionsOf(<<lastSpan[i]>>) \cap positionsOf(<<last.ranges[i]>>) # {}

(***************************************************************************)
(* The search panel.                                                       *)
(***************************************************************************)
\* C27 as stated: a selection-change notification that reaches a visible
\* search panel closes it exactly when the change was not made by the
\* panel's own navigation: every change made from outside closes it, and
\* no navigation of the panel closes it.
C27_Original ==
    (search.delivered # "none" /\ search.wasVisible) =>
        (search.visible <=> search.delivered = "navigation")

(***************************************************************************)
(* GenBank round trip.                                                     *)
(***************************************************************************)
\* the text of the span is in the notation of plus-strand and
\* parenthesised minus-strand ranges `start..end`, with or without `<` and
\* `>`, single or joined with ` + `
isStrandedRangeText(span) ==
    \A i \in 1..Len(span) :
        /\ span[i].start < span[i].end
        /\ span[i].orientation \in {"Plus", "Minus"}

\* C28 as stated: every span of plus-strand and parenthesised minus-strand
\* ranges, single or joined, with or without indefinite markers, is read
\* back from the GenBank text written for it as the span it was.
C28_Original ==
    last.op = "parseGenBank" =>
        \A a \in 1..Len(last.annotations) :
            isStrandedRangeText(last.annotations[a]) =>
                annotations[a] = last.annotations[a]

\* The cases of the policy table in the order the adjustment tries them;
\* the boundary rule is the pure insertion exactly at one bound of the range.
PolicyCases ==
    <<"boundary", "before", "after", "contained", "leftOverlap", "rightOverlap",
      "inside">>

\* the condition the policy table gives for a case, read for the last edit
matchesCase(case, r) ==
    CASE case = "boundary" ->
            lastRemoved = 0 /\ (lastEditStart = r.start \/ lastEditStart = r.end)
      [] case = "before" -> r.end <= lastEditStart
      [] case = "after" -> r.start >= lastEditEnd
      [] case = "contained" -> r.start >= lastEditStart /\ r.end <= lastEditEnd
      [] case = "leftOverlap" ->
            r.start < lastEditStart /\ r.end > lastEditStart /\ r.end <= lastEditEnd
      [] case = "rightOverlap" ->
            r.start >= lastEditStart /\ r.start < lastEditEnd /\ r.end > lastEditEnd
      [] case = "inside" -> r.start < lastEditStart /\ r.end > lastEditEnd

\* the range a case makes of r
resultOfCase(case, r) ==
    CASE case = "boundary" ->
            [r EXCEPT !.end = IF r.end > lastEditStart THEN r.end + lastInserted
                                                      ELSE r.end]
      [] case = "before" -> r
      [] case = "after" ->
            [r EXCEPT !.start = r.start + lastDelta, !.end = r.end + lastDelta]
      [] case = "contained" -> [r EXCEPT !.start = lastEditStart, !.end = lastEditStart]
      [] case = "leftOverlap" -> [r EXCEPT !.end = lastEditStart]
      [] case = "rightOverlap" ->
            [r EXCEPT !.start = lastEditStart + lastInserted, !.end = r.end + lastDelta]
      [] case = "inside" -> [r EXCEPT !.end = r.end + lastDelta]

matchingCases(r) == { i \in 1..Len(PolicyCases) : matchesCase(PolicyCases[i], r) }

firstMatchingCase(r) ==
    PolicyCases[CHOOSE i \in matchingCases(r) : \A j \in matchingCases(r) : i <= j]

\* the span of range p has kept all its ranges (it has not become the
\* single point of a degenerate span)
hasKeptItsRanges(p) == Len(annotations[p[1]]) = Len(last.annotations[p[1]])

\* C29 as stated: every range matches at least one case of the policy
\* table, and the cases it matches all give the same adjusted range.
C29_Original ==
    isSingleEdit =>
        \A p \in RangesBefore :
            Cardinality({ resultOfCase(PolicyCases[i], before(p)) :
                            i \in matchingCases(before(p)) }) = 1

\* C29 (amended): every range matches at least one case of the policy
\* table, the adjusted range is the result of the first case it matches
\* (boundary rule, before, after, contained, left overlap, right overlap,
\* inside), and a range that has bases matches exactly one case unless the
\* edit is a pure insertion exactly at one of its bounds.
C29_FirstCaseDecides ==
    isSingleEdit =>
        \A p \in RangesBefore :
            /\ matchingCases(before(p)) # {}
            /\ hasKeptItsRanges(p) =>
                    after(p) = resultOfCase(firstMatchingCase(before(p)), before(p))
            /\ (before(p).start < before(p).end /\ ~matchesCase("boundary", before(p))) =>
                    Cardinality(matchingCases(before(p))) = 1

C29_Witness ==
    /\ isSingleEdit
    /\ last.op = "insert"
    /\ \E p \in RangesBefore :
        /\ before(p).start = lastEditStart
        /\ before(p).start < before(p).end
        /\ Cardinality(matchingCases(before(p))) = 2
        /\ after(p).start = before(p).start
        /\ after(p).end = before(p).end + lastInserted

====
